---- MODULE Spec2Model ----
(***************************************************************************)
(* Model of the contact manager of src/main.py: the validated fields       *)
(* (Phone, Birthday), Record, AddressBook with get_upcoming_birthdays, and *)
(* the command handlers wrapped by input_error.                            *)
(*                                                                         *)
(* A Python str is a sequence of one-character tokens.  The token "SUP2"   *)
(* stands for U+00B2 (superscript two), a character for which str.isdigit  *)
(* is true although it is not an ASCII digit; "NL" stands for a newline.   *)
(***************************************************************************)
EXTENDS Integers, Sequences, FiniteSets, TLC

VARIABLES book, today, last, before, pc, saved, raw, outcome, query

vars == <<book, today, last, before, pc, saved, raw, outcome, query>>

(***************************************************************************)
(* Bounds of the model.                                                    *)
(***************************************************************************)
MaxPhones == 2
MaxElapsed == 1
MaxHeld == 2
MaxExtra == 1
MaxWindow == 10
MaxDays == 8

(***************************************************************************)
(* Characters and strings.                                                 *)
(***************************************************************************)
AsciiDigits == <<"0", "1", "2", "3", "4", "5", "6", "7", "8", "9">>

AsciiDigitSet == {AsciiDigits[i] : i \in 1..10}

IsAsciiDigit(c) == c \in AsciiDigitSet

\* the characters of the model's alphabet for which str.isdigit() is true
IsDigitChar(c) == c \in AsciiDigitSet \cup {"SUP2"}

\* str.isdigit(): non-empty and every character is a digit character
isdigit(s) == Len(s) > 0 /\ \A i \in 1..Len(s) : IsDigitChar(s[i])

DigitVal(c) == CHOOSE n \in 0..9 : AsciiDigits[n + 1] = c

Rep(c, n) == [i \in 1..n |-> c]

RECURSIVE Join(_, _)
Join(parts, sep) ==
    IF Len(parts) = 0 THEN <<>>
    ELSE IF Len(parts) = 1 THEN parts[1]
    ELSE parts[1] \o sep \o Join(Tail(parts), sep)

(***************************************************************************)
(* Phone.__init__: raises ValueError unless value.isdigit() and            *)
(* len(value) = 10.                                                        *)
(***************************************************************************)
PhoneLen == 10

PhoneOk(value) == ~(~isdigit(value) \/ Len(value) # PhoneLen)

(***************************************************************************)
(* datetime.date: a date is a record [y, m, d].                            *)
(***************************************************************************)
IsLeap(y) == (y % 4 = 0) /\ ((y % 100 # 0) \/ (y % 400 = 0))

DaysInMonth(y, m) ==
    IF m = 2 THEN (IF IsLeap(y) THEN 29 ELSE 28)
    ELSE IF m \in {4, 6, 9, 11} THEN 30 ELSE 31

DateValid(y, m, d) ==
    /\ y \in 1..9999
    /\ m \in 1..12
    /\ d >= 1
    /\ d <= DaysInMonth(y, m)

Date(y, m, d) == [y |-> y, m |-> m, d |-> d]

RECURSIVE DaysBeforeMonth(_, _)
DaysBeforeMonth(y, m) ==
    IF m = 1 THEN 0 ELSE DaysBeforeMonth(y, m - 1) + DaysInMonth(y, m - 1)

\* date.toordinal(): 0001-01-01 is day 1
Ordinal(dt) ==
    LET y1 == dt.y - 1
    IN  y1 * 365 + (y1 \div 4) - (y1 \div 100) + (y1 \div 400)
        + DaysBeforeMonth(dt.y, dt.m) + dt.d

\* date.weekday(): Monday is 0, Sunday is 6
Weekday(dt) == (Ordinal(dt) + 6) % 7

NextDate(dt) ==
    IF dt.d < DaysInMonth(dt.y, dt.m) THEN Date(dt.y, dt.m, dt.d + 1)
    ELSE IF dt.m < 12 THEN Date(dt.y, dt.m + 1, 1)
    ELSE Date(dt.y + 1, 1, 1)

RECURSIVE AddDays(_, _)
AddDays(dt, n) == IF n = 0 THEN dt ELSE AddDays(NextDate(dt), n - 1)

\* (a - b).days
DaysBetween(a, b) == Ordinal(a) - Ordinal(b)

DateLess(a, b) == Ordinal(a) < Ordinal(b)

(***************************************************************************)
(* datetime.strptime(value, "%d.%m.%Y") and date.strftime("%d.%m.%Y").     *)
(***************************************************************************)
RECURSIVE NumVal(_)
NumVal(f) ==
    IF Len(f) = 0 THEN 0
    ELSE IF f[Len(f)] = " " THEN 0
    ELSE NumVal(SubSeq(f, 1, Len(f) - 1)) * 10 + DigitVal(f[Len(f)])

AllAscii(f) == \A i \in 1..Len(f) : IsAsciiDigit(f[i])

\* %d : 3[0-1] | [1-2]\d | 0[1-9] | [1-9] | " "[1-9]
DayField(f) ==
    \/ Len(f) = 1 /\ AllAscii(f) /\ NumVal(f) >= 1
    \/ Len(f) = 2 /\ AllAscii(f) /\ NumVal(f) \in 1..31
    \/ Len(f) = 2 /\ f[1] = " " /\ IsAsciiDigit(f[2]) /\ f[2] # "0"

\* %m : 1[0-2] | 0[1-9] | [1-9]
MonthField(f) ==
    \/ Len(f) = 1 /\ AllAscii(f) /\ NumVal(f) >= 1
    \/ Len(f) = 2 /\ AllAscii(f) /\ NumVal(f) \in 1..12

\* %Y : \d\d\d\d
YearField(f) == Len(f) = 4 /\ AllAscii(f)

Dots(s) == {i \in 1..Len(s) : s[i] = "."}

\* the result of strptime: ok = FALSE stands for ValueError
strptime(s) ==
    IF Cardinality(Dots(s)) # 2 THEN [ok |-> FALSE, date |-> Date(0, 0, 0)]
    ELSE
        LET p1 == CHOOSE i \in Dots(s) : \A j \in Dots(s) : i <= j
            p2 == CHOOSE i \in Dots(s) : \A j \in Dots(s) : i >= j
            df == SubSeq(s, 1, p1 - 1)
            mf == SubSeq(s, p1 + 1, p2 - 1)
            yf == SubSeq(s, p2 + 1, Len(s))
        IN  IF DayField(df) /\ MonthField(mf) /\ YearField(yf)
               /\ DateValid(NumVal(yf), NumVal(mf), NumVal(df))
            THEN [ok |-> TRUE, date |-> Date(NumVal(yf), NumVal(mf), NumVal(df))]
            ELSE [ok |-> FALSE, date |-> Date(0, 0, 0)]

Pad2(n) == <<AsciiDigits[(n \div 10) + 1], AsciiDigits[(n % 10) + 1]>>

Year4(y) ==
    <<AsciiDigits[(y \div 1000) + 1], AsciiDigits[((y \div 100) % 10) + 1],
      AsciiDigits[((y \div 10) % 10) + 1], AsciiDigits[(y % 10) + 1]>>

strftime(dt) == Pad2(dt.d) \o <<".">> \o Pad2(dt.m) \o <<".">> \o Year4(dt.y)

\* Birthday.__init__: ValueError unless strptime accepts the text
BirthdayOk(value) == strptime(value).ok

(***************************************************************************)
(* Outcomes: exc = "None" is a normal return, otherwise the Python         *)
(* exception raised.                                                       *)
(***************************************************************************)
NoBirthday == [has |-> FALSE, value |-> <<>>]

SomeBirthday(text) == [has |-> TRUE, value |-> text]

\* Record.__init__
Record(name) == [name |-> name, phones |-> <<>>, birthday |-> NoBirthday]

\* Record.add_phone
add_phone_front(rec, phone) ==
    IF PhoneOk(phone)
    THEN [exc |-> "None", rec |-> [rec EXCEPT !.phones = <<phone>> \o @]]
    ELSE [exc |-> "ValueError", rec |-> rec]

add_phone(rec, phone) ==
    IF PhoneOk(phone)
    THEN [exc |-> "None", rec |-> [rec EXCEPT !.phones = Append(@, phone)]]
    ELSE [exc |-> "ValueError", rec |-> rec]

\* Record.find_phone: the position of the first phone equal to phone, 0 for None
find_phone_last(phones, phone) ==
    IF \E i \in 1..Len(phones) : phones[i] = phone
    THEN CHOOSE i \in 1..Len(phones) :
             /\ phones[i] = phone
             /\ \A j \in 1..Len(phones) : phones[j] = phone => j <= i
    ELSE 0

find_phone(phones, phone) ==
    IF \E i \in 1..Len(phones) : phones[i] = phone
    THEN CHOOSE i \in 1..Len(phones) :
             /\ phones[i] = phone
             /\ \A j \in 1..Len(phones) : phones[j] = phone => i <= j
    ELSE 0

\* Record.edit_phone
edit_phone(rec, old_phone, new_phone) ==
    LET i == find_phone(rec.phones, old_phone)
    IN  IF i = 0 THEN [exc |-> "ValueError", rec |-> rec]
        ELSE IF ~PhoneOk(new_phone) THEN [exc |-> "ValueError", rec |-> rec]
        ELSE [exc |-> "None", rec |-> [rec EXCEPT !.phones[i] = new_phone]]

\* Record.add_birthday
record_add_birthday(rec, birthday) ==
    IF BirthdayOk(birthday)
    THEN [exc |-> "None", rec |-> [rec EXCEPT !.birthday = SomeBirthday(birthday)]]
    ELSE [exc |-> "ValueError", rec |-> rec]

(***************************************************************************)
(* AddressBook: self.data, a dict in insertion order, as the sequence of   *)
(* its items [key, rec].                                                   *)
(***************************************************************************)
Keys(b) == {b[i].key : i \in 1..Len(b)}

\* AddressBook.find: the position of the record, 0 for None
find(b, name) ==
    IF \E i \in 1..Len(b) : b[i].key = name
    THEN CHOOSE i \in 1..Len(b) : b[i].key = name
    ELSE 0

\* AddressBook.add_record: self.data[record.name.value] = record
Item(key, record) == [key |-> key, rec |-> record]

add_record(b, record) ==
    IF find(b, record.name) = 0 THEN Append(b, Item(record.name, record))
    ELSE [b EXCEPT ![find(b, record.name)] = Item(record.name, record)]

(***************************************************************************)
(* date_utils.adjust_for_weekend: Saturday moves two days forward, Sunday  *)
(* one day forward, a weekday stays.                                       *)
(***************************************************************************)
adjust_for_weekend(dt) ==
    IF Weekday(dt) = 5 THEN AddDays(dt, 2)
    ELSE IF Weekday(dt) = 6 THEN AddDays(dt, 1)
    ELSE dt

\* date.replace(year=y): ValueError when the day does not exist in year y
replace_year(dt, y) ==
    IF DateValid(y, dt.m, dt.d) THEN [exc |-> "None", date |-> Date(y, dt.m, dt.d)]
    ELSE [exc |-> "ValueError", date |-> dt]

\* lines 77-84 of get_upcoming_birthdays: the congratulation date of one birthday
congratulation(text, now) ==
    LET parsed == strptime(text)
        this == replace_year(parsed.date, now.y)
        next == replace_year(this.date, now.y + 1)
    IN  IF ~parsed.ok THEN [exc |-> "ValueError", date |-> now]
        ELSE IF this.exc # "None" THEN [exc |-> this.exc, date |-> now]
        ELSE IF DateLess(this.date, now)
        THEN (IF next.exc # "None" THEN [exc |-> next.exc, date |-> now]
              ELSE [exc |-> "None", date |-> adjust_for_weekend(next.date)])
        ELSE [exc |-> "None", date |-> adjust_for_weekend(this.date)]

Entry(name, dt) == [name |-> name, congratulation_date |-> strftime(dt)]

\* AddressBook.get_upcoming_birthdays: the loop over self.data.values()
RECURSIVE upcoming_loop(_, _, _, _)
upcoming_loop(b, now, days, result) ==
    IF Len(b) = 0 THEN [exc |-> "None", value |-> result]
    ELSE IF ~b[1].rec.birthday.has THEN upcoming_loop(Tail(b), now, days, result)
    ELSE
        LET c == congratulation(b[1].rec.birthday.value, now)
            diff == DaysBetween(c.date, now)
        IN  IF c.exc # "None" THEN [exc |-> c.exc, value |-> <<>>]
            ELSE IF 0 <= diff /\ diff <= days
            THEN upcoming_loop(Tail(b), now, days,
                               Append(result, Entry(b[1].rec.name, c.date)))
            ELSE upcoming_loop(Tail(b), now, days, result)

get_upcoming_birthdays(b, now, days) == upcoming_loop(b, now, days, <<>>)

DefaultDays == 7

(***************************************************************************)
(* The command handlers.  A handler's outcome is [exc, ret, book]; ret is  *)
(* [msg, out]: msg one of the fixed messages, or out the rendered text.    *)
(***************************************************************************)
Msg(m) == [msg |-> m, out |-> <<>>]

Out(chars) == [msg |-> "", out |-> chars]

Raise(e, b) == [exc |-> e, ret |-> Msg(""), book |-> b]

Return(r, b) == [exc |-> "None", ret |-> r, book |-> b]

\* input_error: the message an exception is translated to
ErrorMessageNoAttribute(e) ==
    CASE e = "ValueError" -> "Provide correct data."
      [] e = "IndexError" -> "Not enough arguments."
      [] e = "KeyError" -> "Contact not found."
      [] e = "AttributeError" -> "Provide correct data."

ErrorMessage(e) ==
    CASE e = "ValueError" -> "Provide correct data."
      [] e = "IndexError" -> "Not enough arguments."
      [] e = "KeyError" -> "Contact not found."
      [] e = "AttributeError" -> "Contact not found."

input_error(r) == IF r.exc = "None" THEN r.ret ELSE Msg(ErrorMessage(r.exc))

\* name, phone, *_ = args : ValueError when args is too short
add_contact(args, b) ==
    IF Len(args) < 2 THEN Raise("ValueError", b)
    ELSE
        LET name == args[1]
            phone == args[2]
            absent == find(b, name) = 0
            b1 == IF absent THEN add_record(b, Record(name)) ELSE b
            message == IF absent THEN "Contact added." ELSE "Contact updated."
            i == find(b1, name)
            r == add_phone(b1[i].rec, phone)
        IN  IF Len(phone) = 0 THEN Return(Msg(message), b1)
            ELSE IF r.exc # "None" THEN Raise(r.exc, b1)
            ELSE Return(Msg(message), [b1 EXCEPT ![i].rec = r.rec])

change_contact(args, b) ==
    IF Len(args) < 3 THEN Raise("ValueError", b)
    ELSE
        LET i == find(b, args[1])
            r == edit_phone(b[i].rec, args[2], args[3])
        IN  IF i = 0 THEN Raise("AttributeError", b)
            ELSE IF r.exc # "None" THEN Raise(r.exc, b)
            ELSE Return(Msg("Phone number updated."), [b EXCEPT ![i].rec = r.rec])

show_phone(args, b) ==
    IF Len(args) < 1 THEN Raise("ValueError", b)
    ELSE
        LET i == find(b, args[1])
        IN  IF i = 0 THEN Raise("AttributeError", b)
            ELSE IF Len(b[i].rec.phones) = 0 THEN Return(Msg("No phone numbers."), b)
            ELSE Return(Out(Join(b[i].rec.phones, <<";", " ">>)), b)

add_birthday(args, b) ==
    IF Len(args) < 2 THEN Raise("ValueError", b)
    ELSE
        LET i == find(b, args[1])
            r == record_add_birthday(b[i].rec, args[2])
        IN  IF i = 0 THEN Raise("AttributeError", b)
            ELSE IF r.exc # "None" THEN Raise(r.exc, b)
            ELSE Return(Msg("Birthday added."), [b EXCEPT ![i].rec = r.rec])

show_birthday(args, b) ==
    IF Len(args) < 1 THEN Raise("ValueError", b)
    ELSE
        LET i == find(b, args[1])
        IN  IF i = 0 THEN Raise("AttributeError", b)
            ELSE IF ~b[i].rec.birthday.has THEN Return(Msg("Birthday not set."), b)
            ELSE Return(Out(b[i].rec.birthday.value), b)

BirthdayLines(upcoming) ==
    [k \in 1..Len(upcoming) |->
        upcoming[k].name \o <<":", " ">> \o upcoming[k].congratulation_date]

birthdays(args, b, now) ==
    LET u == get_upcoming_birthdays(b, now, DefaultDays)
    IN  IF u.exc # "None" THEN Raise(u.exc, b)
        ELSE IF Len(u.value) = 0 THEN Return(Msg("No birthdays in the next week."), b)
        ELSE Return(Out(Join(BirthdayLines(u.value), <<"NL">>)), b)

\* AddressBook.__str__
BookLines(b) ==
    [k \in 1..Len(b) |->
        <<"N", "a", "m", "e", ":", " ">> \o b[k].rec.name
        \o <<",", " ", "P", "h", "o", "n", "e", "s", ":", " ">>
        \o Join(b[k].rec.phones, <<";", " ">>)
        \o <<",", " ", "B", "i", "r", "t", "h", "d", "a", "y", ":", " ">>
        \o (IF b[k].rec.birthday.has THEN b[k].rec.birthday.value
            ELSE <<"N", "/", "A">>)]

show_all_contacts(args, b) ==
    IF Len(b) = 0 THEN Return(Msg("Address book is empty."), b)
    ELSE Return(Out(Join(BookLines(b), <<"NL">>)), b)

(***************************************************************************)
(* Inputs of the handlers.                                                 *)
(***************************************************************************)
NameA == <<"a">>

NameB == <<"b">>

Names == {NameA, NameB}

P1 == Rep("1", PhoneLen)

P2 == Rep("2", PhoneLen)

PSup == Rep("SUP2", PhoneLen)

PShort == Rep("1", PhoneLen - 1)

PEmpty == <<>>

PhoneInputs == {P1, PSup, PShort, PEmpty}

B0101 == <<"0", "1", ".", "0", "1", ".", "2", "0", "0", "0">>

B2902 == <<"2", "9", ".", "0", "2", ".", "2", "0", "2", "0">>

B3002 == <<"3", "0", ".", "0", "2", ".", "2", "0", "0", "0">>

BirthdayInputs == {B0101, B2902, B3002}

AddArgs ==
    {<<>>} \cup {<<n>> : n \in Names}
    \cup {<<n, p>> : n \in Names, p \in PhoneInputs}

ChangeArgs ==
    {<<>>, <<NameA>>, <<NameA, P1>>}
    \cup {<<n, o, p>> : n \in Names, o \in {P1, PSup}, p \in {PSup, PShort}}

BirthdayArgs ==
    {<<>>} \cup {<<n>> : n \in Names}
    \cup {<<n, t>> : n \in Names, t \in BirthdayInputs}

NameArgs == {<<>>} \cup {<<n>> : n \in Names}

StartDay == Date(2024, 12, 30)

NoDate == Date(0, 0, 0)

\* the values date.today() takes during the session
Clock == {AddDays(StartDay, k) : k \in 0..MaxElapsed}

NoCall == [op |-> "none", args |-> <<>>, ret |-> Msg(""), clock |-> NoDate]

NoQuery == [asked |-> FALSE, days |-> 0, exc |-> "None", value |-> <<>>]

NoPhone == [asked |-> FALSE, exc |-> "None"]

RECURSIVE TotalPhones(_)
TotalPhones(b) ==
    IF Len(b) = 0 THEN 0 ELSE Len(b[1].rec.phones) + TotalPhones(Tail(b))

(***************************************************************************)
(* The session: one action per command of the read loop, starting from an  *)
(* empty address book.                                                     *)
(***************************************************************************)
Init ==
    /\ book = <<>>
    /\ today = NoDate
    /\ last = NoCall
    /\ before = <<>>
    /\ pc = "session"
    /\ saved = NoCall
    /\ raw = <<>>
    /\ outcome = NoPhone
    /\ query = NoQuery

Call(op, args, r, now) ==
    /\ pc = "session"
    /\ TotalPhones(r.book) <= MaxPhones
    /\ book' = r.book
    /\ last' = [op |-> op, args |-> args, ret |-> input_error(r), clock |-> now]
    /\ before' = book
    /\ UNCHANGED <<today, pc, saved, raw, outcome, query>>

AddContact ==
    \E args \in AddArgs : Call("add_contact", args, add_contact(args, book), NoDate)

ChangeContact ==
    \E args \in ChangeArgs :
        Call("change_contact", args, change_contact(args, book), NoDate)

ShowPhone ==
    \E args \in NameArgs : Call("show_phone", args, show_phone(args, book), NoDate)

AddBirthday ==
    \E args \in BirthdayArgs :
        Call("add_birthday", args, add_birthday(args, book), NoDate)

ShowBirthday ==
    \E args \in NameArgs :
        Call("show_birthday", args, show_birthday(args, book), NoDate)

ShowAllContacts ==
    Call("show_all_contacts", <<>>, show_all_contacts(<<>>, book), NoDate)

\* date.today() is read inside get_upcoming_birthdays
Birthdays ==
    \E now \in Clock : Call("birthdays", <<>>, birthdays(<<>>, book, now), now)

Next ==
    \/ AddContact
    \/ ChangeContact
    \/ ShowPhone
    \/ AddBirthday
    \/ ShowBirthday
    \/ ShowAllContacts
    \/ Birthdays

Spec == Init /\ [][Next]_vars

(***************************************************************************)
(* Phone construction on its own: the string is drawn, then Phone(raw) is  *)
(* evaluated.                                                              *)
(***************************************************************************)
OtherChars == {"9", "a", "-", " ", ".", "SUP2"}

Mixed(n, c, k, x) == [i \in 1..n |-> IF i = k THEN x ELSE c]

PhoneCandidates ==
    {Mixed(n, c, k, x) : n \in 0..(PhoneLen + MaxExtra), c \in {"0", "7"},
                         k \in 0..(PhoneLen + MaxExtra), x \in OtherChars}
    \cup {Rep("SUP2", n) : n \in 0..(PhoneLen + MaxExtra)}

InitPhone ==
    /\ raw \in PhoneCandidates
    /\ outcome = NoPhone
    /\ pc = "phone"
    /\ book = <<>>
    /\ today = NoDate
    /\ last = NoCall
    /\ before = <<>>
    /\ saved = NoCall
    /\ query = NoQuery

ConstructPhone ==
    /\ pc = "phone"
    /\ ~outcome.asked
    /\ outcome' = [asked |-> TRUE,
                   exc |-> IF PhoneOk(raw) THEN "None" ELSE "ValueError"]
    /\ UNCHANGED <<book, today, last, before, pc, saved, raw, query>>

SpecPhone == InitPhone /\ [][ConstructPhone]_vars

(***************************************************************************)
(* get_upcoming_birthdays on its own: the book and the value of            *)
(* date.today() are drawn, then the query is run.                          *)
(***************************************************************************)
B0401 == <<"0", "4", ".", "0", "1", ".", "2", "0", "0", "0">>

B0501 == <<"0", "5", ".", "0", "1", ".", "2", "0", "0", "0">>

QueryBirthdays ==
    {NoBirthday} \cup {SomeBirthday(t) : t \in {B0101, B0401, B0501, B2902}}

QueryItem(n, bd) == Item(n, [name |-> n, phones |-> <<>>, birthday |-> bd])

QueryBooks ==
    {<<>>}
    \cup {<<QueryItem(n, bd)>> : n \in Names, bd \in QueryBirthdays}
    \cup {<<QueryItem(NameA, b1), QueryItem(NameB, b2)>> :
             b1 \in QueryBirthdays, b2 \in QueryBirthdays}
    \cup {<<QueryItem(NameB, b1), QueryItem(NameA, b2)>> :
             b1 \in QueryBirthdays, b2 \in QueryBirthdays}

WindowStart == Date(2024, 12, 28)

Window == {AddDays(WindowStart, k) : k \in 0..MaxWindow}

InitUpcoming ==
    /\ book \in QueryBooks
    /\ today \in Window
    /\ query = NoQuery
    /\ pc = "query"
    /\ last = NoCall
    /\ before = <<>>
    /\ saved = NoCall
    /\ raw = <<>>
    /\ outcome = NoPhone

RunQuery ==
    /\ pc = "query"
    /\ ~query.asked
    /\ \E days \in 0..MaxDays :
          LET u == get_upcoming_birthdays(book, today, days)
          IN  query' = [asked |-> TRUE, days |-> days, exc |-> u.exc,
                        value |-> u.value]
    /\ UNCHANGED <<book, today, last, before, pc, saved, raw, outcome>>

SpecUpcoming == InitUpcoming /\ [][RunQuery]_vars

(***************************************************************************)
(* Books a session can have built: items with distinct keys, valid phones  *)
(* and a valid birthday or none.                                           *)
(***************************************************************************)
Seqs(S, n) == UNION {[1..k -> S] : k \in 0..n}

HeldRecords(n) ==
    {[name |-> n, phones |-> ps, birthday |-> bd] :
        ps \in Seqs({P1, P2}, MaxHeld),
        bd \in {NoBirthday, SomeBirthday(B0101)}}

HeldItems(n) == {Item(n, r) : r \in HeldRecords(n)}

HeldBooks ==
    {<<>>}
    \cup {<<it>> : it \in HeldItems(NameA) \cup HeldItems(NameB)}
    \cup {<<i1, i2>> : i1 \in HeldItems(NameA), i2 \in HeldItems(NameB)}
    \cup {<<i2, i1>> : i1 \in HeldItems(NameA), i2 \in HeldItems(NameB)}

(***************************************************************************)
(* add_contact called twice in a row with the same name.  before is the    *)
(* book at the start, saved the first call, last the second call.          *)
(***************************************************************************)
InitTwice ==
    /\ book \in HeldBooks
    /\ before = book
    /\ pc = "first"
    /\ saved = NoCall
    /\ last = NoCall
    /\ today = NoDate
    /\ raw = <<>>
    /\ outcome = NoPhone
    /\ query = NoQuery

FirstAdd ==
    /\ pc = "first"
    /\ \E n \in Names, p \in {P1, P2} :
          LET r == add_contact(<<n, p>>, book)
          IN  /\ book' = r.book
              /\ saved' = [op |-> "add_contact", args |-> <<n, p>>,
                           ret |-> input_error(r), clock |-> NoDate]
    /\ pc' = "second"
    /\ UNCHANGED <<today, last, before, raw, outcome, query>>

SecondAdd ==
    /\ pc = "second"
    /\ \E p \in {P1, P2} :
          LET r == add_contact(<<saved.args[1], p>>, book)
          IN  /\ book' = r.book
              /\ last' = [op |-> "add_contact", args |-> <<saved.args[1], p>>,
                          ret |-> input_error(r), clock |-> NoDate]
    /\ pc' = "twice"
    /\ UNCHANGED <<today, saved, before, raw, outcome, query>>

NextTwice == FirstAdd \/ SecondAdd

SpecTwice == InitTwice /\ [][NextTwice]_vars

(***************************************************************************)
(* Record.edit_phone on its own: book holds the one record, before the     *)
(* record as it was, last.args the pair (old_phone, new_phone).            *)
(***************************************************************************)
InitEdit ==
    /\ book \in {<<it>> : it \in HeldItems(NameA) \cup HeldItems(NameB)}
    /\ before = book
    /\ pc = "edit"
    /\ saved = NoCall
    /\ last = NoCall
    /\ today = NoDate
    /\ raw = <<>>
    /\ outcome = NoPhone
    /\ query = NoQuery

EditPhone ==
    /\ pc = "edit"
    /\ \E old \in {P1, P2, PShort}, new \in {P1, P2, PSup, PShort} :
          LET r == edit_phone(book[1].rec, old, new)
          IN  /\ book' = [book EXCEPT ![1].rec = r.rec]
              /\ last' = [op |-> "edit_phone", args |-> <<old, new>>,
                          ret |-> Msg(""), clock |-> NoDate]
              /\ outcome' = [asked |-> TRUE, exc |-> r.exc]
    /\ pc' = "edited"
    /\ UNCHANGED <<today, saved, before, raw, query>>

SpecEdit == InitEdit /\ [][EditPhone]_vars

(***************************************************************************)
(* Properties.                                                             *)
(***************************************************************************)
ErrorMessages ==
    {"Provide correct data.", "Not enough arguments.", "Contact not found."}

\* the number of arguments a handler unpacks
Needed(op) ==
    CASE op = "add_contact" -> 2
      [] op = "change_contact" -> 3
      [] op = "add_birthday" -> 2
      [] op = "show_phone" -> 1
      [] op = "show_birthday" -> 1
      [] OTHER -> 0

LookupHandlers == {"change_contact", "show_phone", "add_birthday", "show_birthday"}

\* C1: two add_contact calls in a row with the same name N and valid phones
\* p1, p2 leave exactly one item under N, whose record keeps the phones and
\* the birthday it had and ends with p1, p2; the second call adds no key and
\* returns "Contact updated."; the first returns "Contact added." iff N was
\* not a key before.
C1_AddTwice ==
    pc = "twice" =>
        LET N == saved.args[1]
            p1 == saved.args[2]
            p2 == last.args[2]
            i0 == find(before, N)
            held == IF i0 = 0 THEN Record(N) ELSE before[i0].rec
            under == {k \in 1..Len(book) : book[k].key = N}
        IN  /\ Cardinality(under) = 1
            /\ \A k \in under :
                  /\ book[k].rec.name = N
                  /\ book[k].rec.phones = held.phones \o <<p1, p2>>
                  /\ book[k].rec.birthday = held.birthday
            /\ Cardinality(Keys(book)) = Cardinality(Keys(before) \cup {N})
            /\ Len(book) = Cardinality(Keys(book))
            /\ last.ret = Msg("Contact updated.")
            /\ (saved.ret = Msg("Contact added.")) <=> (i0 = 0)
            /\ saved.ret \in {Msg("Contact added."), Msg("Contact updated.")}

C1_Witness ==
    /\ pc = "twice"
    /\ Len(before) = 2
    /\ before[2].key = saved.args[1]
    /\ before[2].rec.phones = <<P2>>
    /\ before[2].rec.birthday.has
    /\ saved.args[2] = P1
    /\ last.args[2] = P2
    /\ book[2].rec.phones = <<P2, P1, P2>>

\* C2: a handler called with fewer arguments than it unpacks returns
\* "Not enough arguments." and leaves the book unchanged.
C2_TooFewArguments ==
    (last.op # "none" /\ Len(last.args) < Needed(last.op)) =>
        /\ last.ret = Msg("Not enough arguments.")
        /\ book = before

\* C3: a lookup handler called with enough arguments and a name that is not
\* a key returns "Contact not found." whatever the other arguments are, and
\* the book is unchanged.
C3_UnknownName ==
    (/\ last.op \in LookupHandlers
     /\ Len(last.args) >= Needed(last.op)
     /\ last.args[1] \notin Keys(before)) =>
        /\ last.ret = Msg("Contact not found.")
        /\ book = before

C3_Witness ==
    /\ last.op = "add_birthday"
    /\ last.args = <<NameB, B3002>>
    /\ Keys(before) = {NameA}
    /\ last.ret = Msg("Contact not found.")
    /\ book = before

\* C5: the birthdays handler returns "No birthdays in the next week." or the
\* rendered lines, never one of the error messages.
C5_BirthdaysNeverFails ==
    last.op = "birthdays" =>
        /\ last.ret.msg \notin ErrorMessages
        /\ \/ last.ret = Msg("No birthdays in the next week.")
           \/ last.ret.msg = "" /\ Len(last.ret.out) > 0

\* C8: after any sequence of handler calls every stored phone is a string
\* of exactly 10 decimal digits, and every key of the book maps to a record
\* whose name is the key (keys are distinct).
C8_StoredPhonesValid ==
    /\ \A i \in 1..Len(book) :
          /\ book[i].rec.name = book[i].key
          /\ \A k \in 1..Len(book[i].rec.phones) :
                /\ Len(book[i].rec.phones[k]) = 10
                /\ \A j \in 1..Len(book[i].rec.phones[k]) :
                      IsAsciiDigit(book[i].rec.phones[k][j])
    /\ \A i, j \in 1..Len(book) : book[i].key = book[j].key => i = j

\* every stored phone passed the check of Phone.__init__, and every key maps
\* to the record of that name
StoredPhonesPassedValidation ==
    /\ \A i \in 1..Len(book) :
          /\ book[i].rec.name = book[i].key
          /\ \A k \in 1..Len(book[i].rec.phones) : PhoneOk(book[i].rec.phones[k])
    /\ \A i, j \in 1..Len(book) : book[i].key = book[j].key => i = j

\* C9: a handler that returns one of the error messages leaves the book as
\* it was.
C9_ErrorLeavesBook ==
    last.ret.msg \in ErrorMessages => book = before

\* C7: Phone(raw) succeeds iff raw is exactly 10 ASCII decimal digits.
C7_PhoneIffTenAsciiDigits ==
    outcome.asked =>
        ((outcome.exc = "None") <=>
            (Len(raw) = 10 /\ \A i \in 1..Len(raw) : IsAsciiDigit(raw[i])))

\* C6: edit_phone(old, new) with old present and new valid replaces the
\* first phone equal to old and changes nothing else.
C6_EditFirstMatch ==
    (/\ pc = "edited"
     /\ \E k \in 1..Len(before[1].rec.phones) :
           before[1].rec.phones[k] = last.args[1]
     /\ Len(last.args[2]) = 10
     /\ \A j \in 1..Len(last.args[2]) : IsDigitChar(last.args[2][j])) =>
        LET was == before[1].rec.phones
            now == book[1].rec.phones
            first == CHOOSE k \in 1..Len(was) :
                        /\ was[k] = last.args[1]
                        /\ \A j \in 1..(k - 1) : was[j] # last.args[1]
        IN  /\ outcome.exc = "None"
            /\ Len(now) = Len(was)
            /\ now[first] = last.args[2]
            /\ \A k \in 1..Len(was) : k # first => now[k] = was[k]
            /\ book[1].rec.name = before[1].rec.name
            /\ book[1].rec.birthday = before[1].rec.birthday
            /\ book[1].key = before[1].key

C6_Witness ==
    /\ pc = "edited"
    /\ before[1].rec.phones = <<P1, P1>>
    /\ before[1].rec.birthday.has
    /\ last.args = <<P1, P2>>
    /\ book[1].rec.phones = <<P2, P1>>

(***************************************************************************)
(* The reference result of the upcoming-birthdays query.                   *)
(***************************************************************************)
IsLeapDay(text) == strptime(text).date.m = 2 /\ strptime(text).date.d = 29

\* the items whose birthday is not 29.02
RECURSIVE LeapFree(_)
LeapFree(b) ==
    IF Len(b) = 0 THEN <<>>
    ELSE IF b[1].rec.birthday.has /\ IsLeapDay(b[1].rec.birthday.value)
    THEN LeapFree(Tail(b))
    ELSE <<b[1]>> \o LeapFree(Tail(b))

RECURSIVE EntriesOf(_, _)
EntriesOf(entries, names) ==
    IF Len(entries) = 0 THEN <<>>
    ELSE IF entries[1].name \in names
    THEN <<entries[1]>> \o EntriesOf(Tail(entries), names)
    ELSE EntriesOf(Tail(entries), names)

RefOccurrence(m, d, now) ==
    IF Ordinal(Date(now.y, m, d)) < Ordinal(now) THEN Date(now.y + 1, m, d)
    ELSE Date(now.y, m, d)

RefAdjusted(dt) ==
    CASE Weekday(dt) = 5 -> AddDays(dt, 2)
      [] Weekday(dt) = 6 -> AddDays(dt, 1)
      [] OTHER -> dt

RECURSIVE RefUpcoming(_, _, _)
RefUpcoming(b, now, days) ==
    IF Len(b) = 0 THEN <<>>
    ELSE IF ~b[1].rec.birthday.has THEN RefUpcoming(Tail(b), now, days)
    ELSE
        LET bd == strptime(b[1].rec.birthday.value).date
            adj == RefAdjusted(RefOccurrence(bd.m, bd.d, now))
            diff == Ordinal(adj) - Ordinal(now)
        IN  IF 0 <= diff /\ diff <= days
            THEN <<[name |-> b[1].rec.name, congratulation_date |-> strftime(adj)]>>
                 \o RefUpcoming(Tail(b), now, days)
            ELSE RefUpcoming(Tail(b), now, days)

D01012025 == <<"0", "1", ".", "0", "1", ".", "2", "0", "2", "5">>

\* C4: get_upcoming_birthdays returns the reference result for every book,
\* every today and every withinDays >= 0: a list, whose entries for the
\* records with a birthday that exists in every year are exactly the
\* reference entries, in insertion order; 01.01.2000 asked on 30.12.2024
\* within 7 days is listed with 01.01.2025.
C4_UpcomingIsReference ==
    query.asked =>
        /\ query.exc = "None"
        /\ EntriesOf(query.value, Keys(LeapFree(book)))
               = RefUpcoming(LeapFree(book), today, query.days)
        /\ (book = <<QueryItem(NameA, SomeBirthday(B0101))>>
            /\ today = Date(2024, 12, 30) /\ query.days = 7) =>
               query.value = <<[name |-> NameA, congratulation_date |-> D01012025]>>

\* C10: on every day from a birthday occurrence up to and including its
\* weekend-adjusted congratulation date, the query (7 days) lists the
\* contact with that adjusted date.
C10_ListedUntilCongratulation ==
    (query.asked /\ query.exc = "None" /\ query.days = DefaultDays) =>
        \A i \in 1..Len(book) :
            book[i].rec.birthday.has =>
                LET bd == strptime(book[i].rec.birthday.value).date
                IN  \A y \in {today.y - 1, today.y} :
                        DateValid(y, bd.m, bd.d) =>
                            LET occ == Date(y, bd.m, bd.d)
                                adj == RefAdjusted(occ)
                            IN  (Ordinal(occ) <= Ordinal(today)
                                 /\ Ordinal(today) <= Ordinal(adj)) =>
                                    \E k \in 1..Len(query.value) :
                                        query.value[k] =
                                            [name |-> book[i].rec.name,
                                             congratulation_date |-> strftime(adj)]

\* without a 29.02 birthday in the book the query returns the reference result
UpcomingAgreesWithoutLeapDay ==
    (query.asked /\ LeapFree(book) = book) =>
        /\ query.exc = "None"
        /\ query.value = RefUpcoming(book, today, query.days)

====
